---- MODULE Spec2Model ----
(***************************************************************************)
(* Model of the custom hook library of packages/assignment:                *)
(*   - the equality helpers shallowEquals and deepEquals, as operators     *)
(*     over a model of JavaScript values (primitives, and objects/arrays   *)
(*     that carry a reference identity);                                   *)
(*   - the hooks useMemo, useCallback and useDeepMemo, as actions of one   *)
(*     call site that is rendered repeatedly;                              *)
(*   - the like handlers of the example news feed apps of packages/example *)
(*     (likeFeed of common-sample, likeNews of context-sample), with the   *)
(*     state updates React queues between an event and the next render.    *)
(***************************************************************************)
EXTENDS Integers, Sequences, FiniteSets, TLC

\* ---------------------------------------------------------------- bounds
\* numbers used as primitive values are 1..MaxNum
MaxNum == 2
\* distinct instances (references) of one object literal
MaxCopy == 2
\* hook calls (renders) of the call site
MaxCalls == 3
\* news items of the feed (generateNewsData(50) in the app)
NumItems == 2
\* the initial likes of an item are 0..MaxLikes (0..99 in the app)
MaxLikes == 1
\* like events handled by the app
MaxEvents == 3
\* the readings of Date.now() are 1..MaxClock
MaxClock == 2

\* ------------------------------------------------------ JavaScript values
\* A value is a record tagged by t.  Objects and arrays carry their own
\* enumerable properties in Object.keys order and an instance tag inst: two
\* object values are the same reference iff they are the same record, so two
\* literals with equal contents and different inst are distinct references.
\* An array also carries its length, which is not an enumerable property: an
\* array with holes has fewer index keys than its length, and an array may
\* have own properties that are not indices.
Undefined == [t |-> "undefined"]
Null == [t |-> "null"]
NaN == [t |-> "NaN"]
Num(n) == [t |-> "number", v |-> n]
Str(s) == [t |-> "string", s |-> s]
Bool(b) == [t |-> "boolean", b |-> b]
Prop(k, v) == [k |-> k, v |-> v]
Obj(props, inst) == [t |-> "object", arr |-> FALSE, props |-> props, inst |-> inst]
\* a dense array literal [e1, ..., en]
Arr(elems, inst) ==
    [t |-> "object", arr |-> TRUE,
     props |-> [i \in 1..Len(elems) |->
                  Prop(<<"0", "1", "2", "3">>[i], elems[i])],
     inst |-> inst, length |-> Len(elems)]
\* an array with the given own enumerable properties and length: one with
\* holes ([1,,]) or with a property that is no index (a = [1]; a.a = 2)
ArrOf(props, length, inst) ==
    [t |-> "object", arr |-> TRUE, props |-> props, inst |-> inst, length |-> length]
\* a built-in function object
Builtin(name) == [t |-> "function", name |-> name]

\* the results of a call: the two booleans, or the TypeError the call raises
RTrue == "true"
RFalse == "false"
RTypeError == "TypeError"

\* typeof x
TypeOf(x) ==
    CASE x.t = "null" -> "object"
      [] x.t = "NaN" -> "number"
      [] OTHER -> x.t

\* Array.isArray(x)
IsArray(x) == x.t = "object" /\ x.arr

\* a === b: NaN is not equal to itself, objects are equal by reference
StrictEq(a, b) == a # NaN /\ a = b

\* Object.keys(x) of an object or array x (Object.keys(null) raises TypeError:
\* the callers below test for null first)
ObjectKeys(x) == [i \in 1..Len(x.props) |-> x.props[i].k]

\* x.length of an array
Length(x) == x.length

\* the properties every object inherits from Object.prototype (arrays from
\* Array.prototype, which overrides toString)
\* the string-keyed properties of Object.prototype, which every object and
\* array inherits
ObjectPrototypeKeys ==
    {"constructor", "__defineGetter__", "__defineSetter__", "hasOwnProperty",
     "__lookupGetter__", "__lookupSetter__", "isPrototypeOf",
     "propertyIsEnumerable", "toString", "valueOf", "__proto__",
     "toLocaleString"}
\* the string-keyed properties of Array.prototype besides length, which an
\* array inherits before those of Object.prototype
ArrayPrototypeKeys ==
    {"constructor", "at", "concat", "copyWithin", "fill", "find", "findIndex",
     "findLast", "findLastIndex", "lastIndexOf", "pop", "push", "reverse",
     "shift", "unshift", "slice", "sort", "splice", "includes", "indexOf",
     "join", "keys", "entries", "values", "forEach", "filter", "flat",
     "flatMap", "map", "every", "some", "reduce", "reduceRight",
     "toLocaleString", "toString", "toReversed", "toSorted", "toSpliced",
     "with"}
\* the two prototype objects, as __proto__ returns them
ObjectPrototype == Obj(<<>>, 0)
ArrayPrototype == ArrOf(<<>>, 0, 0)
\* the keys x finds on its prototype chain
InheritedKeys(x) ==
    IF x = ObjectPrototype THEN ObjectPrototypeKeys
    ELSE IF IsArray(x) THEN ArrayPrototypeKeys \cup ObjectPrototypeKeys
    ELSE ObjectPrototypeKeys
\* the value of a key x finds on its prototype chain
Inherited(x, key) ==
    IF key = "__proto__"
    THEN IF x = ObjectPrototype THEN Null
         ELSE IF x = ArrayPrototype THEN ObjectPrototype
         ELSE IF IsArray(x) THEN ArrayPrototype
         ELSE ObjectPrototype
    ELSE IF key = "constructor"
    THEN Builtin(IF IsArray(x) THEN "Array" ELSE "Object")
    ELSE IF IsArray(x) /\ key \in ArrayPrototypeKeys
    THEN Builtin("Array.prototype." \o key)
    ELSE Builtin("Object.prototype." \o key)

\* x[key] of an object or array x: the own property, else the array's
\* length, else the property inherited through the prototype chain, else
\* undefined
Get(x, key) ==
    IF \E i \in 1..Len(x.props) : x.props[i].k = key
    THEN LET i == CHOOSE j \in 1..Len(x.props) : x.props[j].k = key
         IN  x.props[i].v
    ELSE IF IsArray(x) /\ key = "length" THEN Num(Length(x))
    ELSE IF key \in InheritedKeys(x) THEN Inherited(x, key)
    ELSE Undefined

\* the key of index i (0-based) of an array
IndexKey(i) == <<"0", "1", "2", "3">>[i + 1]

\* ---------------------------------------------------------- shallowEquals
\* the loop of lines 56-61, from the i-th key of objA on
RECURSIVE shallowKeys(_, _, _)
shallowKeys(objA, objB, i) ==
    IF i > Len(ObjectKeys(objA)) THEN RTrue
    ELSE IF ~StrictEq(Get(objA, ObjectKeys(objA)[i]), Get(objB, ObjectKeys(objA)[i]))
         THEN RFalse
         ELSE shallowKeys(objA, objB, i + 1)

shallowEquals_noIdentity(objA, objB) ==
    IF TypeOf(objA) # "object" \/ TypeOf(objB) # "object" THEN RFalse
    ELSE IF objA = Null \/ objB = Null THEN RTypeError
    ELSE IF Len(ObjectKeys(objA)) # Len(ObjectKeys(objB)) THEN RFalse
    ELSE shallowKeys(objA, objB, 1)

shallowEquals(objA, objB) ==
    IF StrictEq(objA, objB) THEN RTrue
    ELSE IF TypeOf(objA) # "object" \/ TypeOf(objB) # "object" THEN RFalse
    ELSE IF objA = Null \/ objB = Null THEN RTypeError
    ELSE IF Len(ObjectKeys(objA)) # Len(ObjectKeys(objB)) THEN RFalse
    ELSE shallowKeys(objA, objB, 1)

\* ------------------------------------------------------------- deepEquals
RECURSIVE deepEquals(_, _)
RECURSIVE deepElems(_, _, _)
RECURSIVE deepKeys(_, _, _)

\* the loop of lines 21-25, from index i (0-based) on
deepElems(objA, objB, i) ==
    IF i >= Length(objA) THEN RTrue
    ELSE LET r == deepEquals(Get(objA, IndexKey(i)), Get(objB, IndexKey(i)))
         IN  IF r = RTypeError THEN RTypeError
             ELSE IF r = RFalse THEN RFalse
             ELSE deepElems(objA, objB, i + 1)

\* the loop of lines 35-39, from the i-th key of objA on
deepKeys(objA, objB, i) ==
    IF i > Len(ObjectKeys(objA)) THEN RTrue
    ELSE LET r == deepEquals(Get(objA, ObjectKeys(objA)[i]),
                             Get(objB, ObjectKeys(objA)[i]))
         IN  IF r = RTypeError THEN RTypeError
             ELSE IF r = RFalse THEN RFalse
             ELSE deepKeys(objA, objB, i + 1)

deepEquals_noLength(objA, objB) ==
    IF StrictEq(objA, objB) THEN RTrue
    ELSE IF objA = Null /\ objB = Null THEN RTrue
    ELSE IF IsArray(objA) /\ IsArray(objB)
         THEN deepElems(objA, objB, 0)
    ELSE IF TypeOf(objA) = "object" /\ TypeOf(objB) = "object"
         THEN IF objA = Null \/ objB = Null THEN RTypeError
              ELSE IF Len(ObjectKeys(objA)) # Len(ObjectKeys(objB)) THEN RFalse
              ELSE deepKeys(objA, objB, 1)
    ELSE RFalse

deepEquals(objA, objB) ==
    IF StrictEq(objA, objB) THEN RTrue
    ELSE IF objA = Null /\ objB = Null THEN RTrue
    ELSE IF IsArray(objA) /\ IsArray(objB)
         THEN IF Length(objA) # Length(objB) THEN RFalse
              ELSE deepElems(objA, objB, 0)
    ELSE IF TypeOf(objA) = "object" /\ TypeOf(objB) = "object"
         THEN IF objA = Null \/ objB = Null THEN RTypeError
              ELSE IF Len(ObjectKeys(objA)) # Len(ObjectKeys(objB)) THEN RFalse
              ELSE deepKeys(objA, objB, 1)
    ELSE RFalse

\* ------------------------------------------------- the values compared
Nums == {Num(n) : n \in 1..MaxNum}
Copies == 1..MaxCopy
Prims == {Undefined, Null, NaN, Str("s"), Bool(TRUE)} \cup Nums
\* the values of the properties of the innermost objects
Leaf == {Undefined, Null, NaN} \cup Nums
Small == {Undefined} \cup Nums

\* objects and arrays of primitives
Flat ==
    UNION {
      {Obj(<<>>, c), Arr(<<>>, c)}
      \cup {Obj(<<Prop(k, v)>>, c) : k \in {"a", "b", "0"}, v \in Leaf}
      \cup {Arr(<<v>>, c) : v \in Leaf}
      \cup {Obj(<<Prop("a", v), Prop("b", w)>>, c) : v \in Small, w \in Small}
      \cup {Arr(<<v, w>>, c) : v \in Small, w \in Small}
      : c \in Copies }

\* the objects put inside another object
Inner ==
    UNION {
      {Obj(<<>>, c), Arr(<<>>, c)}
      \cup {Obj(<<Prop("a", v)>>, c) : v \in Leaf}
      \cup {Arr(<<v>>, c) : v \in Leaf}
      : c \in Copies }

\* objects and arrays holding one object
Nested ==
    UNION { {Obj(<<Prop("a", x)>>, c) : x \in Inner}
            \cup {Arr(<<x>>, c) : x \in Inner}
            : c \in Copies }

\* {a: [1, {b: n}]}, the nested example of the deepEquals tests
Example(n, c) == Obj(<<Prop("a", Arr(<<Num(1), Obj(<<Prop("b", Num(n))>>, c)>>, c))>>, c)
Examples == {Example(n, c) : n \in 1..MaxNum, c \in Copies}

\* objects whose keys name an inherited property or an array's length, arrays
\* with holes, and arrays with a property that is no index
Unusual ==
    UNION {
      {Obj(<<Prop("toString", Undefined)>>, c),
       Obj(<<Prop("constructor", Undefined)>>, c),
       Obj(<<Prop("isPrototypeOf", Undefined)>>, c),
       Obj(<<Prop("map", Undefined)>>, c),
       Obj(<<Prop("length", Num(1))>>, c),
       ArrOf(<<>>, 1, c),
       ArrOf(<<Prop("0", Num(1))>>, 2, c),
       ArrOf(<<Prop("1", Num(1))>>, 2, c),
       ArrOf(<<Prop("0", Num(1)), Prop("a", Undefined)>>, 1, c),
       ArrOf(<<Prop("0", Num(1)), Prop("a", Num(2))>>, 1, c)}
      : c \in Copies }

Values == Prims \cup Flat \cup Nested \cup Examples \cup Unusual

\* ------------------------------------------------------- function values
\* a function the caller writes: fn(args) is the term Returns(fn, args)
Fn(name) == [t |-> "function", name |-> name]
\* what the function fn returns when called with the arguments args
Returns(fn, args) == [t |-> "returned", by |-> fn.name, args |-> args]

\* --------------------------------------------------------------- the hooks
\* The factory of the memoization test: each invocation increments a counter
\* and returns a new object, as () => ({...}) does.  n is the counter after
\* the invocation.
factory(n) == Obj(<<Prop("count", Num(n))>>, n)

\* useMemo(factory, deps, equals) with the factory counter at count: the value
\* returned and the counter afterwards (lines 7-10: deps and equals are unused)
useMemo(count, deps, equals) ==
    [value |-> factory(count + 1), count |-> count + 1]

\* useDeepMemo(factory, deps) (lines 29-32)
useDeepMemo(count, deps) == useMemo(count, deps, "deepEquals")

\* useCallback(fn, deps) on the n-th render: the arrow function created by
\* that call, which closes over the fn of that call (lines 17-20)
useCallback(fn, deps, n) == [t |-> "function", wraps |-> fn, inst |-> n]

\* wrapper(...args): the arrow function's body, factory(...args)
Invoke(wrapper, args) ==
    [target |-> wrapper.wraps, passed |-> args, value |-> Returns(wrapper.wraps, args)]

\* ------------------------------------------------ the call site's inputs
Hooks == {"useMemo", "useDeepMemo", "useCallback"}
\* dependency lists of the call site (arity 2): a number or an instance of
\* {a: 1}, then a number
DepLists ==
    {<<d1, d2>> : d1 \in {Num(1)} \cup {Obj(<<Prop("a", Num(1))>>, c) : c \in Copies},
                  d2 \in {Num(2), Num(3)}}
Fns == {Fn("f"), Fn("g")}
ArgLists == {<<Num(1), Num(2)>>, <<Num(2), Num(1)>>}

VARIABLES objA, objB, called, result, hook, log, invocations, applied,
          app, news, shown, queue, totalLikes, base, liked, now

vars == <<objA, objB, called, result, hook, log, invocations, applied,
          app, news, shown, queue, totalLikes, base, liked, now>>
appVars == <<app, news, shown, queue, totalLikes, base, liked, now>>
eqVars == <<objA, objB, called, result>>
memoVars == <<hook, log, invocations, applied>>

NoCall == [t |-> "none"]

\* ------------------------------------------- specification of the helpers
InitEq ==
    /\ objA \in Values
    /\ objB \in Values
    /\ called = "none"
    /\ result = "none"
    /\ hook = "none"
    /\ log = <<>>
    /\ invocations = 0
    /\ applied = NoCall
    /\ app = "none"
    /\ news = <<>>
    /\ shown = <<>>
    /\ queue = <<>>
    /\ totalLikes = 0
    /\ base = <<>>
    /\ liked = <<>>
    /\ now = 0

CallShallowEquals ==
    /\ called = "none"
    /\ hook = "none"
    /\ called' = "shallowEquals"
    /\ result' = shallowEquals(objA, objB)
    /\ UNCHANGED <<objA, objB>>
    /\ UNCHANGED memoVars
    /\ UNCHANGED appVars

CallDeepEquals ==
    /\ called = "none"
    /\ hook = "none"
    /\ called' = "deepEquals"
    /\ result' = deepEquals(objA, objB)
    /\ UNCHANGED <<objA, objB>>
    /\ UNCHANGED memoVars
    /\ UNCHANGED appVars

NextEq == CallShallowEquals \/ CallDeepEquals

SpecEq == InitEq /\ [][NextEq]_vars

\* --------------------------------------------- specification of the hooks
\* One call site, bound to one hook, rendered up to MaxCalls times.  log is
\* the history of its calls: the deps and fn passed, the value returned and
\* the number of factory invocations the call made.
InitMemo ==
    /\ hook \in Hooks
    /\ log = <<>>
    /\ invocations = 0
    /\ applied = NoCall
    /\ objA = Undefined
    /\ objB = Undefined
    /\ called = "none"
    /\ result = "none"
    /\ app = "none"
    /\ news = <<>>
    /\ shown = <<>>
    /\ queue = <<>>
    /\ totalLikes = 0
    /\ base = <<>>
    /\ liked = <<>>
    /\ now = 0

RenderUseMemo ==
    /\ hook = "useMemo"
    /\ Len(log) < MaxCalls
    /\ \E deps \in DepLists :
         LET r == useMemo(invocations, deps, "shallowEquals")
         IN  /\ log' = Append(log, [deps |-> deps, fn |-> Fn("factory"),
                                    ret |-> r.value,
                                    invoked |-> r.count - invocations])
             /\ invocations' = r.count
    /\ UNCHANGED <<hook, applied>>
    /\ UNCHANGED eqVars
    /\ UNCHANGED appVars

RenderUseDeepMemo ==
    /\ hook = "useDeepMemo"
    /\ Len(log) < MaxCalls
    /\ \E deps \in DepLists :
         LET r == useDeepMemo(invocations, deps)
         IN  /\ log' = Append(log, [deps |-> deps, fn |-> Fn("factory"),
                                    ret |-> r.value,
                                    invoked |-> r.count - invocations])
             /\ invocations' = r.count
    /\ UNCHANGED <<hook, applied>>
    /\ UNCHANGED eqVars
    /\ UNCHANGED appVars

RenderUseCallback ==
    /\ hook = "useCallback"
    /\ Len(log) < MaxCalls
    /\ \E deps \in DepLists, fn \in Fns :
         log' = Append(log, [deps |-> deps, fn |-> fn,
                             ret |-> useCallback(fn, deps, Len(log) + 1),
                             invoked |-> 0])
    /\ applied' = NoCall
    /\ UNCHANGED <<hook, invocations>>
    /\ UNCHANGED eqVars
    /\ UNCHANGED appVars

\* the caller calls the function the latest useCallback call returned
InvokeCallback ==
    /\ hook = "useCallback"
    /\ Len(log) > 0
    /\ applied = NoCall
    /\ \E args \in ArgLists :
         applied' = [t |-> "call", args |-> args,
                     out |-> Invoke(log[Len(log)].ret, args)]
    /\ UNCHANGED <<hook, log, invocations>>
    /\ UNCHANGED eqVars
    /\ UNCHANGED appVars

NextMemo == RenderUseMemo \/ RenderUseDeepMemo \/ RenderUseCallback \/ InvokeCallback

SpecMemo == InitMemo /\ [][NextMemo]_vars

\* ------------------------------------- specification of the news feed apps
\* news is the state of useState, as committed by the last render; shown is
\* the news list the last render passed to its handlers (each handler closes
\* over it); queue holds the setNews calls made since the last render; now is
\* the latest reading of Date.now().  base and liked record the initial list
\* and the like events per id.  The category filter only selects the cards
\* displayed and is left out.

\* news.map(item => item.id === id ? {...item, likes: item.likes + 1} : item)
LikeMap(list, id) ==
    [i \in DOMAIN list |->
       IF list[i].id = id THEN [list[i] EXCEPT !.likes = @ + 1] ELSE list[i]]

\* news.reduce((sum, item) => sum + item.likes, 0)
RECURSIVE SumLikes(_)
SumLikes(list) ==
    IF list = <<>> THEN 0
    ELSE list[1].likes + SumLikes(Tail(list))

\* the state after one queued setNews call that runs at time: a value
\* replaces the state, an updater prev => ... is applied to it; the updater
\* of addNews appends {id: Date.now(), likes: 0}
ApplyUpdate(prev, update, time) ==
    IF update.kind = "value" THEN update.news
    ELSE IF update.kind = "add" THEN Append(prev, [id |-> time, likes |-> 0])
    ELSE LikeMap(prev, update.id)

\* the state after the queued setNews calls, applied in order, the i-th at
\* the time times[i]
RECURSIVE Reduce(_, _, _)
Reduce(prev, updates, times) ==
    IF updates = <<>> THEN prev
    ELSE Reduce(ApplyUpdate(prev, updates[1], times[1]), Tail(updates), Tail(times))

Items == 1..NumItems
\* the ids an item can have: 1..NumItems in common-sample, a reading of
\* Date.now() in context-sample
Ids == 1..(NumItems + MaxClock)

\* common-sample starts from generateNewsData (ids 1.., random likes);
\* context-sample starts with useState([]), an empty list
InitApp ==
    /\ app \in {"common-sample", "context-sample"}
    /\ base \in IF app = "common-sample"
                THEN {b \in [Items -> {[id |-> i, likes |-> n] : i \in Items, n \in 0..MaxLikes}] :
                        \A i \in Items : b[i].id = i}
                ELSE {<<>>}
    /\ news = base
    /\ shown = base
    /\ queue = <<>>
    /\ totalLikes = SumLikes(base)
    /\ liked = [i \in Ids |-> 0]
    /\ now = 1
    /\ objA = Undefined
    /\ objB = Undefined
    /\ called = "none"
    /\ result = "none"
    /\ hook = "none"
    /\ log = <<>>
    /\ invocations = 0
    /\ applied = NoCall

Events == SumLikes([i \in Ids |-> [id |-> i, likes |-> liked[i]]])

\* common-sample App.likeFeed(id): setNews(news.map(...)) over the news of
\* the render that created the handler
LikeFeed ==
    /\ app = "common-sample"
    /\ Events < MaxEvents
    /\ \E i \in 1..Len(shown) :
         /\ queue' = Append(queue, [kind |-> "value",
                                    news |-> LikeMap(shown, shown[i].id)])
         /\ liked' = [liked EXCEPT ![shown[i].id] = @ + 1]
    /\ UNCHANGED <<app, news, shown, totalLikes, base, now>>
    /\ UNCHANGED eqVars
    /\ UNCHANGED memoVars

\* context-sample NewsProvider.addNews(newNews):
\* setNews(prev => [...prev, {...newNews, id: Date.now(), likes: 0}])
AddNews ==
    /\ app = "context-sample"
    /\ Len(news) + Cardinality({i \in 1..Len(queue) : queue[i].kind = "add"}) < NumItems
    /\ queue' = Append(queue, [kind |-> "add"])
    /\ UNCHANGED <<app, news, shown, totalLikes, base, liked, now>>
    /\ UNCHANGED eqVars
    /\ UNCHANGED memoVars

\* context-sample NewsProvider.likeNews(id) of a displayed item:
\* setNews(prev => prev.map(...))
LikeNews ==
    /\ app = "context-sample"
    /\ Events < MaxEvents
    /\ \E i \in 1..Len(shown) :
         /\ queue' = Append(queue, [kind |-> "updater", id |-> shown[i].id])
         /\ liked' = [liked EXCEPT ![shown[i].id] = @ + 1]
    /\ UNCHANGED <<app, news, shown, totalLikes, base, now>>
    /\ UNCHANGED eqVars
    /\ UNCHANGED memoVars

\* the times at which the queued updaters run: readings of Date.now() that
\* never go back (two updaters may run within one millisecond)
RunTimes ==
    IF \E i \in 1..Len(queue) : queue[i].kind = "add"
    THEN {times \in [1..Len(queue) -> now..MaxClock] :
            \A i \in 1..(Len(queue) - 1) : times[i] <= times[i + 1]}
    ELSE {[i \in 1..Len(queue) |-> now]}

\* the re-render the queued updates ask for: the state is reduced from the
\* queue, totalLikes is recomputed and the handlers close over the new news
RenderApp ==
    /\ app # "none"
    /\ queue # <<>>
    /\ \E times \in RunTimes :
         /\ news' = Reduce(news, queue, times)
         /\ now' = times[Len(queue)]
    /\ shown' = news'
    /\ totalLikes' = SumLikes(news')
    /\ queue' = <<>>
    /\ UNCHANGED <<app, base, liked>>
    /\ UNCHANGED eqVars
    /\ UNCHANGED memoVars

NextApp == LikeFeed \/ AddNews \/ LikeNews \/ RenderApp

SpecApp == InitApp /\ [][NextApp]_vars

\* C14: in the common-sample app no like is lost: once the queued updates are
\* rendered, every item's likes have grown by the number of like events for
\* its id and totalLikes by the number of like events, whatever the
\* interleaving of like events and renders.
C14_NoLikeLost ==
    (app = "common-sample" /\ queue = <<>>) =>
      /\ \A i \in Items : news[i].likes = base[i].likes + liked[i]
      /\ totalLikes = SumLikes(base) + Events

\* ------------------------------------------------- claims on the helpers
\* an object or an array (never null)
IsObjectLike(x) == x.t = "object"
\* a primitive, undefined or null
IsNonObject(x) == x.t # "object"
KeySet(x) == {x.props[i].k : i \in 1..Len(x.props)}
Bit(p) == IF p THEN RTrue ELSE RFalse

\* C6 as stated: shallowEquals(x, x) is true for every value x, NaN included.
C6_ReflexiveEveryValue ==
    (called = "shallowEquals" /\ objA = objB) => result = RTrue

\* C6 amended: shallowEquals(x, x) is true for every value x other than NaN
\* (every other primitive, undefined, null, every object and every array).
C6_ReflexiveExceptNaN ==
    (called = "shallowEquals" /\ objA = objB /\ objA # NaN) => result = RTrue

C6_Witness ==
    /\ called = "shallowEquals"
    /\ objA = objB
    /\ objA = Undefined
    /\ result = RTrue

\* C7: shallowEquals and deepEquals return false, and raise nothing, when
\* exactly one argument is a non-object (primitive, undefined or null) and the
\* other is an object or array, in either order.
C7_NonObjectAgainstObjectIsFalse ==
    ( /\ called \in {"shallowEquals", "deepEquals"}
      /\ \/ IsNonObject(objA) /\ IsObjectLike(objB)
         \/ IsObjectLike(objA) /\ IsNonObject(objB) )
    => result = RFalse

\* C8: for two distinct object-like values, shallowEquals is false when the
\* key counts differ, and otherwise true exactly when every key of a gives in
\* b (b[key]: own property, array length or inherited property, undefined
\* when absent) a value === to a's; nested objects count
\* by reference.  {a:1} vs {a:1} and [1,2] vs [1,2] are true, {a:{b:1}} vs a
\* distinct {a:{b:1}} and arrays of different lengths are false.
C8_ShallowObjects ==
    /\ ( /\ called = "shallowEquals"
         /\ IsObjectLike(objA) /\ IsObjectLike(objB)
         /\ objA # objB )
       => result =
            IF Cardinality(KeySet(objA)) # Cardinality(KeySet(objB)) THEN RFalse
            ELSE Bit(\A key \in KeySet(objA) :
                        StrictEq(Get(objA, key), Get(objB, key)))
    /\ called = "shallowEquals" =>
         /\ (objA = Obj(<<Prop("a", Num(1))>>, 1) /\ objB = Obj(<<Prop("a", Num(1))>>, 2))
               => result = RTrue
         /\ ( /\ objA = Obj(<<Prop("a", Obj(<<Prop("a", Num(1))>>, 1))>>, 1)
              /\ objB = Obj(<<Prop("a", Obj(<<Prop("a", Num(1))>>, 2))>>, 2) )
               => result = RFalse
         /\ (objA = Arr(<<Num(1), Num(2)>>, 1) /\ objB = Arr(<<Num(1), Num(2)>>, 2))
               => result = RTrue
         /\ (IsArray(objA) /\ IsArray(objB) /\ Length(objA) # Length(objB))
               => result = RFalse

\* C9: for two distinct non-array objects, deepEquals is false when the key
\* counts differ, and otherwise true exactly when every key of a exists as a
\* key of b and the values under it are deep-equal; also for objects with
\* properties whose value is undefined.
C9_DeepObjectsByKey ==
    ( /\ called = "deepEquals"
      /\ IsObjectLike(objA) /\ ~IsArray(objA)
      /\ IsObjectLike(objB) /\ ~IsArray(objB)
      /\ objA # objB )
    => result =
         IF Cardinality(KeySet(objA)) # Cardinality(KeySet(objB)) THEN RFalse
         ELSE Bit(\A key \in KeySet(objA) :
                     /\ key \in KeySet(objB)
                     /\ deepEquals(Get(objA, key), Get(objB, key)) = RTrue)

\* C10: deepEquals is false when exactly one argument is an array and the
\* other is a non-array object, whatever their keys and values.
C10_ArrayAgainstObjectIsFalse ==
    ( /\ called = "deepEquals"
      /\ IsObjectLike(objA) /\ IsObjectLike(objB)
      /\ IsArray(objA) # IsArray(objB) )
    => result = RFalse

\* C11: for two distinct arrays, deepEquals is false when the lengths differ,
\* and otherwise true exactly when deepEquals(a[i], b[i]) is true for every
\* index i, at every nesting depth ([1,2] vs [1] is false).
C11_DeepArraysByIndex ==
    ( /\ called = "deepEquals"
      /\ IsArray(objA) /\ IsArray(objB)
      /\ objA # objB )
    => IF Length(objA) # Length(objB) THEN result = RFalse
       ELSE result = RTrue <=>
              \A i \in 0..(Length(objA) - 1) :
                 deepEquals(Get(objA, IndexKey(i)), Get(objB, IndexKey(i))) = RTrue

C11_Witness ==
    /\ called = "deepEquals"
    /\ objA = Arr(<<Obj(<<Prop("a", Num(1))>>, 1)>>, 1)
    /\ objB = Arr(<<Obj(<<Prop("a", Num(1))>>, 2)>>, 2)
    /\ result = RTrue

\* C12: both comparators are symmetric on every pair on which they return a
\* result in both orders: equals(a, b) = equals(b, a).
C12_Symmetric ==
    /\ called = "shallowEquals" =>
         LET back == shallowEquals(objB, objA)
         IN  (result # RTypeError /\ back # RTypeError) => result = back
    /\ called = "deepEquals" =>
         LET back == deepEquals(objB, objA)
         IN  (result # RTypeError /\ back # RTypeError) => result = back

\* C13: shallowEquals(a, b) = true implies deepEquals(a, b) = true: what the
\* default comparator judges unchanged, the deep comparator judges unchanged.
C13_ShallowImpliesDeep ==
    (called = "deepEquals" /\ shallowEquals(objA, objB) = RTrue) => result = RTrue

\* --------------------------------------------------- claims on the hooks
\* The memo cell the specification describes, read off the history of calls.
\* the comparator of the call site's hook
Comparator(x, y) ==
    IF hook = "useDeepMemo" THEN deepEquals(x, y) ELSE shallowEquals(x, y)
\* the new deps all match the old deps pairwise under the comparator
DepsMatch(new, old) ==
    /\ Len(new) = Len(old)
    /\ \A i \in 1..Len(new) : Comparator(new[i], old[i]) = RTrue
\* the call whose deps and value are stored after the i-th call: the most
\* recent first-or-changed call
RECURSIVE StoredAt(_)
StoredAt(i) ==
    IF i = 1 THEN 1
    ELSE IF DepsMatch(log[i].deps, log[StoredAt(i - 1)].deps) THEN StoredAt(i - 1)
    ELSE i
\* the i-th call is the first call or a call whose deps changed
Changed(i) == StoredAt(i) = i
Calls == 1..Len(log)

\* C1: the factory is invoked exactly once on the first call and on each
\* later call whose deps differ from the stored deps, and not at all on a call
\* whose deps match the stored deps ([1,2] then [1,2]: one invocation in all).
C1_FactoryOncePerChange ==
    hook = "useMemo" =>
      /\ \A i \in Calls : log[i].invoked = (IF Changed(i) THEN 1 ELSE 0)
      /\ invocations = Cardinality({i \in Calls : Changed(i)})

\* C2: a call whose deps match the stored deps returns the very value stored
\* by the most recent first-or-changed call; the value returned is replaced
\* exactly when the stored deps are replaced.
C2_MatchReturnsStoredValue ==
    hook = "useMemo" =>
      /\ \A i \in Calls : StrictEq(log[i].ret, log[StoredAt(i)].ret)
      /\ \A i \in Calls \ {1} :
           Changed(i) <=> ~StrictEq(log[i].ret, log[i - 1].ret)

\* the lists hold deep-equal values, and distinct instances in some position
DistinctDeepEqual(new, old) ==
    /\ \A i \in 1..Len(new) : deepEquals(new[i], old[i]) = RTrue
    /\ \E i \in 1..Len(new) : IsObjectLike(new[i]) /\ new[i] # old[i]

\* C3: on a call whose deps hold distinct instances deep-equal to those of the
\* call before, useDeepMemo does not invoke the factory and returns the value
\* of the call before, whereas useMemo does invoke the factory.
C3_DeepMemoKeepsDeepEqualDeps ==
    \A i \in Calls \ {1} :
      DistinctDeepEqual(log[i].deps, log[i - 1].deps) =>
        /\ hook = "useDeepMemo" =>
             log[i].invoked = 0 /\ StrictEq(log[i].ret, log[i - 1].ret)
        /\ hook = "useMemo" => log[i].invoked = 1

\* C4: a useCallback call whose deps match the stored deps returns the
\* function object the call before returned; a new function object is
\* returned only on the first call or when a dep changed.
C4_CallbackReferenceStable ==
    hook = "useCallback" =>
      \A i \in Calls \ {1} :
        ~Changed(i) => StrictEq(log[i].ret, log[i - 1].ret)

\* C5: the function useCallback returned, called with arguments, calls the
\* currently memoized function (the fn of the most recent first-or-changed
\* call) with exactly those arguments in order and returns its return value.
C5_WrapperForwardsToMemoized ==
    (hook = "useCallback" /\ applied # NoCall) =>
      LET memoized == log[StoredAt(Len(log))].fn
      IN  /\ applied.out.target = memoized
          /\ applied.out.passed = applied.args
          /\ applied.out.value = Returns(memoized, applied.args)

====
